---- MODULE Spec2Model ----
(***************************************************************************)
(* The esp8266 AT-command driver of libesp8266 (include/libesp8266/        *)
(* esp8266.hpp) as a state machine: the three serial readers, the          *)
(* transaction state machine driven by get_status(), the public calls      *)
(* request(), change_access_point() and driver_initialize(), and the       *)
(* serial device with the module behind it.                                *)
(*                                                                         *)
(* Bytes are strings.  A literal of the source that the driver only ever   *)
(* writes (a command, a piece of the request format) is one byte-token;    *)
(* everything the driver scans or parses is spelt byte by byte.  Sizes are *)
(* counted in tokens, and the packet size (1460 in the source) is scaled   *)
(* to maximum_response_packet_size tokens so that whole packets can be     *)
(* enumerated.                                                             *)
(***************************************************************************)
EXTENDS Integers, Sequences, FiniteSets, TLC

\* ------------------------------------------------------------------ sizes

\* esp8266::maximum_response_packet_size (1460), in tokens
maximum_response_packet_size == 10

\* size of the response buffer the caller hands to the constructor
ResponseSize == 8

\* how many calls other than get_status() the caller makes in one run
MaxCalls == 1

\* ------------------------------------------------------------------ bytes

Digits == <<"0", "1", "2", "3", "4", "5", "6", "7", "8", "9">>

isdigit(b) == \E i \in 1..10 : Digits[i] = b

DigitValue(b) == (CHOOSE i \in 1..10 : Digits[i] = b) - 1

isspace(b) == b \in {" ", "\r", "\n", "\t"}

\* "%d" / "%u" of a non-negative number
RECURSIVE ToDigits(_)
ToDigits(n) == IF n < 10 THEN <<Digits[n + 1]>>
               ELSE ToDigits(n \div 10) \o <<Digits[(n % 10) + 1]>>

Min(a, b) == IF a < b THEN a ELSE b

\* A uint32_t is kept as its two 16-bit halves, hi * 65536 + lo, so that
\* arithmetic modulo 2^32 stays within the integers at hand.
Half == 65536

Zero32 == [hi |-> 0, lo |-> 0]

\* v * 10 + d in uint32_t
TimesTenPlus(v, d) ==
  LET lo == v.lo * 10 + d
      hi == v.hi * 10 + lo \div Half
  IN [hi |-> hi % Half, lo |-> lo % Half]

\* the number a uint32_t holds
Value32(v) == v.hi * Half + v.lo

\* a byte read from outside an array: its value is not the program's to choose
OutOfBounds == "<oob>"

\* esp8266::ok_response and the other terminators, byte by byte
ok_response == <<"O", "K", "\r", "\n">>
ipd_preamble == <<"+", "I", "P", "D", ",">>
end_of_header == <<"\r", "\n", "\r", "\n">>

\* a span over a literal, or a view into the response buffer
to_bytes(literal) == [view |-> "literal", bytes |-> literal, len |-> Len(literal)]
response_subspan(len) == [view |-> "response", bytes |-> <<>>, len |-> len]

\* ------------------------------------------------------------ the states

States == <<"reset", "disable_echo", "configure_as_http_client",
            "attempting_ap_connection", "connected_to_ap",
            "connecting_to_server", "preparing_request", "sending_request",
            "get_first_packet_length", "reading_first_packet",
            "parsing_header", "get_packet_length",
            "read_packet_into_response", "get_next_packet",
            "close_connection", "close_connection_failure", "complete",
            "failure">>

\* the enumerator's value
StateOrd(s) == CHOOSE i \in 1..Len(States) : States[i] = s

failure_header == [status_code |-> 0, content_length |-> 0, header_length |-> 0]

is_valid(h) == h.status_code # 0 /\ h.content_length # 0 /\ h.header_length # 0


\* ----------------------------------------------------- the serial device
\* A world w is the driver object (w.esp), the serial device (w.serial), what
\* became of an access outside an array (w.fault) and what the running call
\* did to the serial device (w.io).

NoIo == [polled |-> "none", read |-> FALSE, wrote |-> FALSE, bytes |-> <<>>]

\* serial::write: the span goes out as one chunk
serial_write(w, bytes) ==
  [w EXCEPT !.serial.tx = Append(@, bytes), !.io.wrote = TRUE]

\* serial::flush: received bytes not yet read are dropped
serial_flush(w) == [w EXCEPT !.serial.rx = <<>>]

\* serial::bytes_available
bytes_available(w) == Len(w.serial.rx)

\* serial::read into a span of p_size bytes: the bytes it returns
serial_read_bytes(w, p_size) == SubSeq(w.serial.rx, 1, Min(p_size, Len(w.serial.rx)))

\* serial::read into a span of p_size bytes: the device afterwards
serial_read(w, p_size) ==
  [w EXCEPT !.serial.rx = SubSeq(@, Min(p_size, Len(@)) + 1, Len(@)),
            !.io.read = TRUE,
            !.io.bytes = @ \o SubSeq(w.serial.rx, 1, Min(p_size, Len(w.serial.rx)))]

\* an access outside an array: the build either traps or carries on
UndefinedAccess(w, ub) ==
  [w EXCEPT !.fault = IF ub = "trap" THEN "trapped" ELSE "overrun"]

\* ------------------------------------------------------ read_into_buffer

new_buffer(w, p_memory) ==
  [w EXCEPT !.esp.m_reader = [m_memory |-> p_memory, m_read_index |-> 0]]

BufferSize(buf) ==
  IF buf = "packet" THEN maximum_response_packet_size ELSE ResponseSize

\* bytes stored from offset p_off (0-based) on; what falls outside is not kept
StoreAt(array, p_off, bytes) ==
  [i \in 1..Len(array) |->
     IF i > p_off /\ i <= p_off + Len(bytes) THEN bytes[i - p_off] ELSE array[i]]

\* read_into_buffer::done storing every read at the start of its memory
read_into_buffer_done_from_start(w, ub) ==
  LET r == w.esp.m_reader
      mem == r.m_memory
  IN IF r.m_read_index = mem.len
       THEN [w |-> w, ret |-> TRUE]
       ELSE LET bytes == serial_read_bytes(w, mem.len - r.m_read_index)
                at == mem.off
                w1 == serial_read(w, mem.len - r.m_read_index)
                w2 == IF mem.buf = "packet"
                        THEN [w1 EXCEPT !.esp.m_packet = StoreAt(@, at, bytes)]
                        ELSE [w1 EXCEPT !.esp.m_response = StoreAt(@, at, bytes)]
                w3 == [w2 EXCEPT !.esp.m_reader.m_read_index = @ + Len(bytes)]
                w4 == IF at + Len(bytes) > BufferSize(mem.buf)
                        THEN UndefinedAccess(w3, ub) ELSE w3
            IN [w |-> w4, ret |-> FALSE]

read_into_buffer_done(w, ub) ==
  LET r == w.esp.m_reader
      mem == r.m_memory
  IN IF r.m_read_index = mem.len
       THEN [w |-> w, ret |-> TRUE]
       ELSE LET bytes == serial_read_bytes(w, mem.len - r.m_read_index)
                at == mem.off + r.m_read_index
                w1 == serial_read(w, mem.len - r.m_read_index)
                w2 == IF mem.buf = "packet"
                        THEN [w1 EXCEPT !.esp.m_packet = StoreAt(@, at, bytes)]
                        ELSE [w1 EXCEPT !.esp.m_response = StoreAt(@, at, bytes)]
                w3 == [w2 EXCEPT !.esp.m_reader.m_read_index = @ + Len(bytes)]
                w4 == IF at + Len(bytes) > BufferSize(mem.buf)
                        THEN UndefinedAccess(w3, ub) ELSE w3
            IN [w |-> w4, ret |-> FALSE]

\* --------------------------------------------- command_and_find_response

new_search(w, p_command, p_sequence) ==
  [w EXCEPT !.esp.m_commander =
     [m_search_index |-> 0, m_sent_command |-> FALSE,
   m_command |-> p_command, m_sequence |-> p_sequence]]

\* the bytes a span denotes when it is written out
SpanBytes(w, span) ==
  IF span.view = "literal" THEN span.bytes
  ELSE [i \in 1..span.len |->
          IF i <= Len(w.esp.m_response) THEN w.esp.m_response[i] ELSE OutOfBounds]

\* command_and_find_response::done advancing its cursor on every byte read
command_and_find_response_done_on_any_byte(w) ==
  LET c == w.esp.m_commander
  IN IF c.m_search_index = Len(c.m_sequence)
       THEN [w |-> w, ret |-> TRUE]
       ELSE LET w1 == IF ~c.m_sent_command
                        THEN [serial_write(w, SpanBytes(w, c.m_command))
                                EXCEPT !.esp.m_commander.m_sent_command = TRUE]
                        ELSE w
                w2 == IF bytes_available(w1) >= 1
                        THEN [serial_read(w1, 1)
                                EXCEPT !.esp.m_commander.m_search_index =
                                         c.m_search_index + 1]
                        ELSE w1
            IN [w |-> w2, ret |-> FALSE]

command_and_find_response_done(w) ==
  LET c == w.esp.m_commander
  IN IF c.m_search_index = Len(c.m_sequence)
       THEN [w |-> w, ret |-> TRUE]
       ELSE LET w1 == IF ~c.m_sent_command
                        THEN [serial_write(w, SpanBytes(w, c.m_command))
                                EXCEPT !.esp.m_commander.m_sent_command = TRUE]
                        ELSE w
                w2 == IF bytes_available(w1) >= 1
                        THEN LET received_byte == serial_read_bytes(w1, 1)
                             IN [serial_read(w1, 1)
                                   EXCEPT !.esp.m_commander.m_search_index =
                                     IF c.m_sequence[c.m_search_index + 1] # received_byte[1]
                                       THEN 0 ELSE c.m_search_index + 1]
                        ELSE w1
            IN [w |-> w2, ret |-> FALSE]

\* ---------------------------------------------------------- read_integer

restart(w) ==
  [w EXCEPT !.esp.m_integer_reader =
     [m_finished |-> FALSE, m_found_digit |-> FALSE, m_integer |-> Zero32]]

\* read_integer::done without its m_found_digit guard: any non-digit ends it
read_integer_done_on_any_byte(w) ==
  LET r == w.esp.m_integer_reader
  IN IF r.m_finished
       THEN [w |-> w, ret |-> TRUE]
       ELSE IF bytes_available(w) >= 1
         THEN LET received_byte == serial_read_bytes(w, 1)
                  w1 == serial_read(w, 1)
                  w2 == IF isdigit(received_byte[1])
                          THEN [w1 EXCEPT !.esp.m_integer_reader.m_integer =
                                            TimesTenPlus(@, DigitValue(received_byte[1])),
                                          !.esp.m_integer_reader.m_found_digit = TRUE]
                          ELSE [w1 EXCEPT !.esp.m_integer_reader.m_finished = TRUE]
              IN [w |-> w2, ret |-> w2.esp.m_integer_reader.m_finished]
         ELSE [w |-> w, ret |-> r.m_finished]

read_integer_done(w) ==
  LET r == w.esp.m_integer_reader
  IN IF r.m_finished
       THEN [w |-> w, ret |-> TRUE]
       ELSE IF bytes_available(w) >= 1
         THEN LET received_byte == serial_read_bytes(w, 1)
                  w1 == serial_read(w, 1)
                  w2 == IF isdigit(received_byte[1])
                          THEN [w1 EXCEPT !.esp.m_integer_reader.m_integer =
                                            TimesTenPlus(@, DigitValue(received_byte[1])),
                                          !.esp.m_integer_reader.m_found_digit = TRUE]
                          ELSE IF r.m_found_digit
                            THEN [w1 EXCEPT !.esp.m_integer_reader.m_finished = TRUE]
                            ELSE w1
              IN [w |-> w2, ret |-> w2.esp.m_integer_reader.m_finished]
         ELSE [w |-> w, ret |-> r.m_finished]

\* read_integer::get
get(w) == Value32(w.esp.m_integer_reader.m_integer)

\* ------------------------------------------- response_header_from_string

npos == -1

\* std::string_view::find: the offset (0-based) of the first occurrence
find(s, pat) ==
  LET hits == {i \in 0..(Len(s) - Len(pat)) : SubSeq(s, i + 1, i + Len(pat)) = pat}
  IN IF hits = {} THEN npos ELSE CHOOSE i \in hits : \A j \in hits : i <= j

\* the position (1-based) of the first byte at or after p that is no white space
RECURSIVE SkipSpace(_, _)
SkipSpace(s, p) ==
  IF p <= Len(s) /\ isspace(s[p]) THEN SkipSpace(s, p + 1) ELSE p

\* the value of the digits from position p on, after the value acc
RECURSIVE Accumulate(_, _, _)
Accumulate(s, p, acc) ==
  IF p <= Len(s) /\ isdigit(s[p])
    THEN Accumulate(s, p + 1, acc * 10 + DigitValue(s[p]))
    ELSE acc

\* sscanf of "<literal> %u" where the literal ends before position p:
\* white space is skipped, a sign is allowed, then at least one digit
sscanf(s, p) ==
  LET q == SkipSpace(s, p)
      d == IF q <= Len(s) /\ s[q] = "+" THEN q + 1 ELSE q
  IN IF d <= Len(s) /\ isdigit(s[d])
       THEN [count |-> 1, value |-> Accumulate(s, d, 0)]
       ELSE [count |-> 0, value |-> 0]

\* response_header_from_string taking the separator's offset for the header's length
response_header_from_string_at_separator(p_header_info) ==
  LET index1 == find(p_header_info, <<"HTTP/1.1 ">>)
      status == sscanf(p_header_info, index1 + 2)
      index2 == find(p_header_info, <<"Content-Length: ">>)
      length == sscanf(p_header_info, index2 + 2)
      index3 == find(p_header_info, end_of_header)
  IN IF index1 = npos THEN failure_header
     ELSE IF status.count # 1 THEN failure_header
     ELSE IF index2 = npos THEN failure_header
     ELSE IF length.count # 1 THEN failure_header
     ELSE IF index3 = npos THEN failure_header
     ELSE [status_code |-> status.value, content_length |-> length.value,
           header_length |-> index3]

response_header_from_string(p_header_info) ==
  LET index1 == find(p_header_info, <<"HTTP/1.1 ">>)
      status == sscanf(p_header_info, index1 + 2)
      index2 == find(p_header_info, <<"Content-Length: ">>)
      length == sscanf(p_header_info, index2 + 2)
      index3 == find(p_header_info, end_of_header)
  IN IF index1 = npos THEN failure_header
     ELSE IF status.count # 1 THEN failure_header
     ELSE IF index2 = npos THEN failure_header
     ELSE IF length.count # 1 THEN failure_header
     ELSE IF index3 = npos THEN failure_header
     ELSE [status_code |-> status.value, content_length |-> length.value,
           header_length |-> index3 + Len(end_of_header)]


\* ------------------------------------------------------------- esp8266

\* esp8266::write: flush, then write
write(w, p_string) == serial_write(serial_flush(w), p_string)

\* a byte of m_packet at offset i (0-based), or of what lies behind it
PacketByte(w, i) ==
  IF i < maximum_response_packet_size THEN w.esp.m_packet[i + 1] ELSE OutOfBounds

\* std::copy_n from m_packet + p_from, p_count bytes, to m_response.begin()
copy_n(w, p_from, p_count, ub) ==
  LET bytes == [i \in 1..p_count |-> PacketByte(w, p_from + i - 1)]
      w1 == [w EXCEPT !.esp.m_response = StoreAt(@, 0, bytes)]
  IN IF p_from + p_count > maximum_response_packet_size \/ p_count > ResponseSize
       THEN UndefinedAccess(w1, ub) ELSE w1

\* the request as "GET %s HTTP/1.1\r\nHost: %s:%s\r\n\r\n\r\n" formats it
FormattedRequest(r) ==
  <<"GET ">> \o r.path \o <<" HTTP/1.1\r\nHost: ", r.domain, ":", r.port, "\r\n\r\n\r\n">>

\* snprintf into an array of p_size bytes: what fits, then the terminating
\* zero; the array afterwards
snprintf(array, p_size, text) ==
  IF p_size = 0 THEN array
  ELSE StoreAt(array, 0, SubSeq(text, 1, Min(Len(text), p_size - 1)) \o <<"\\0">>)

\* case sending_request (preparing_request falls through into it)
sending_request(w, ub) ==
  LET w1 == new_search(w, response_subspan(w.esp.m_request_length), ipd_preamble)
      w2 == [w1 EXCEPT !.esp.m_next_state = "get_first_packet_length",
                       !.esp.m_read_state = "until_sequence"]
  IN IF w.esp.m_request_length > ResponseSize THEN UndefinedAccess(w2, ub) ELSE w2

\* case preparing_request; fmt says whether a formatter reports an error
preparing_request(w, ub, fmt) ==
  LET text == FormattedRequest(w.esp.m_request)
      w1 == IF fmt = "request_error"
              THEN [w EXCEPT !.esp.m_request_length = -1]
              ELSE [w EXCEPT !.esp.m_response = snprintf(@, ResponseSize, text),
                             !.esp.m_request_length = Len(text)]
      cipsend == <<"AT+CIPSEND=">> \o ToDigits(w1.esp.m_request_length) \o <<"\r\n">>
      w2 == write(w1, cipsend)
      w3 == new_search(w2, to_bytes(<<>>), ok_response)
      w4 == [w3 EXCEPT !.esp.m_next_state = "sending_request",
                       !.esp.m_read_state = "until_sequence"]
  IN IF w1.esp.m_request_length < 0
       THEN [w1 EXCEPT !.esp.m_next_state = "close_connection_failure"]
     ELSE IF fmt = "cipsend_error"
       THEN [w1 EXCEPT !.esp.m_next_state = "close_connection_failure"]
     ELSE sending_request(w4, ub)

\* case parsing_header, were the body not measured against the response buffer
parsing_header_unmeasured(w, ub) ==
  LET w1 == [w EXCEPT !.esp.m_header = response_header_from_string(w.esp.m_packet)]
      h == w1.esp.m_header
  IN IF ~is_valid(h)
       THEN [w1 EXCEPT !.esp.m_next_state = "close_connection_failure"]
     ELSE IF get(w1) < maximum_response_packet_size
       THEN [copy_n(w1, h.header_length, h.content_length, ub)
               EXCEPT !.esp.m_next_state = "close_connection"]
     ELSE LET bytes_retrieved == get(w1) - h.header_length
          IN [copy_n(w1, h.header_length, bytes_retrieved, ub)
                EXCEPT !.esp.m_response_position = bytes_retrieved,
                       !.esp.m_next_state = "get_packet_length"]

\* case parsing_header
parsing_header(w, ub) ==
  LET w1 == [w EXCEPT !.esp.m_header = response_header_from_string(w.esp.m_packet)]
      h == w1.esp.m_header
  IN IF ~is_valid(h)
       THEN [w1 EXCEPT !.esp.m_next_state = "close_connection_failure"]
     ELSE IF h.content_length > ResponseSize
       THEN [w1 EXCEPT !.esp.m_next_state = "close_connection_failure"]
     ELSE IF get(w1) < maximum_response_packet_size
       THEN [copy_n(w1, h.header_length, h.content_length, ub)
               EXCEPT !.esp.m_next_state = "close_connection"]
     ELSE LET bytes_retrieved == get(w1) - h.header_length
          IN [copy_n(w1, h.header_length, bytes_retrieved, ub)
                EXCEPT !.esp.m_response_position = bytes_retrieved,
                       !.esp.m_next_state = "get_packet_length"]

\* case read_packet_into_response
read_packet_into_response(w, ub) ==
  LET w1 == new_buffer(w, [buf |-> "response", off |-> w.esp.m_response_position,
                           len |-> get(w)])
      w2 == [w1 EXCEPT !.esp.m_next_state = "get_next_packet",
                       !.esp.m_read_state = "into_buffer"]
  IN IF w.esp.m_response_position + get(w) > ResponseSize
       THEN UndefinedAccess(w2, ub) ELSE w2

\* case get_next_packet, were the cursor to advance by one byte a packet
get_next_packet_by_one(w) ==
  LET position == w.esp.m_response_position + 1
  IN [w EXCEPT !.esp.m_response_position = position,
               !.esp.m_next_state = IF position >= w.esp.m_header.content_length
                                      THEN "close_connection" ELSE "get_packet_length"]

\* case get_next_packet
get_next_packet(w) ==
  LET position == w.esp.m_response_position + get(w)
  IN [w EXCEPT !.esp.m_response_position = position,
               !.esp.m_next_state = IF position >= w.esp.m_header.content_length
                                      THEN "close_connection" ELSE "get_packet_length"]

\* a command, then the scan for OK
Command(w, p_command, p_next) ==
  [new_search(w, to_bytes(p_command), ok_response)
     EXCEPT !.esp.m_next_state = p_next, !.esp.m_read_state = "until_sequence"]

\* case complete and case failure, were they to lead back to ConnectedToAp
complete_or_failure_returning(w) ==
  [w EXCEPT !.esp.m_next_state = "connected_to_ap"]

\* case complete and case failure
complete_or_failure(w) == w

transition_state(w, ub, fmt) ==
  LET st == w.esp.m_state
  IN CASE st = "reset" -> [w EXCEPT !.esp.m_next_state = "disable_echo"]
       [] st = "disable_echo" ->
            Command(w, <<"ATE0\r\n">>, "configure_as_http_client")
       [] st = "configure_as_http_client" ->
            Command(w, <<"AT+CWMODE=1\r\n">>, "attempting_ap_connection")
       [] st = "attempting_ap_connection" ->
            Command(write(write(write(write(w, <<"AT+CWJAP_CUR=\"">>),
                                      <<w.esp.m_ssid>>), <<"\",\"">>),
                          <<w.esp.m_password>>),
                    <<"\"\r\n">>, "connected_to_ap")
       [] st = "connected_to_ap" -> w
       [] st = "connecting_to_server" ->
            Command(write(write(write(write(w, <<"AT+CIPSTART=\"TCP\",\"">>),
                                      <<w.esp.m_request.domain>>), <<"\",">>),
                          <<w.esp.m_request.port>>),
                    <<"\r\n">>, "preparing_request")
       [] st = "preparing_request" -> preparing_request(w, ub, fmt)
       [] st = "sending_request" -> sending_request(w, ub)
       [] st = "get_first_packet_length" ->
            [restart(w) EXCEPT !.esp.m_next_state = "reading_first_packet",
                               !.esp.m_read_state = "integer"]
       [] st = "reading_first_packet" ->
            LET w1 == [new_buffer(w, [buf |-> "packet", off |-> 0, len |-> get(w)])
                         EXCEPT !.esp.m_next_state = "parsing_header",
                                !.esp.m_read_state = "into_buffer"]
            IN IF get(w) > maximum_response_packet_size
                 THEN UndefinedAccess(w1, ub) ELSE w1
       [] st = "parsing_header" -> parsing_header(w, ub)
       [] st = "get_packet_length" ->
            [restart(w) EXCEPT !.esp.m_next_state = "read_packet_into_response",
                               !.esp.m_read_state = "integer"]
       [] st = "read_packet_into_response" -> read_packet_into_response(w, ub)
       [] st = "get_next_packet" -> get_next_packet(w)
       [] st = "close_connection" -> Command(w, <<"AT+CIPCLOSE\r\n">>, "complete")
       [] st = "close_connection_failure" ->
            Command(w, <<"AT+CIPCLOSE\r\n">>, "failure")
       [] st = "complete" -> complete_or_failure(w)
       [] st = "failure" -> complete_or_failure(w)

\* esp8266::driver_initialize with a serial device that initializes
driver_initialize(w) == [serial_flush(w) EXCEPT !.esp.m_state = "reset"]

change_access_point(w, p_ssid, p_password) ==
  [w EXCEPT !.esp.m_ssid = p_ssid, !.esp.m_password = p_password,
            !.esp.m_next_state = "connected_to_ap"]

\* esp8266::connected, were it to compare with attempting_ap_connection
connected_early(w) == StateOrd(w.esp.m_state) >= StateOrd("attempting_ap_connection")

connected(w) == StateOrd(w.esp.m_state) >= StateOrd("connected_to_ap")

request(w, p_request, ub, fmt) ==
  transition_state([w EXCEPT !.esp.m_request = p_request,
                             !.esp.m_next_state = "connecting_to_server"],
                   ub, fmt)

\* esp8266::response
response(w) == w.esp.m_response

\* the readers, were the scanner polled in every read state
Poll_scanner_always(w, ub) == command_and_find_response_done(w)

\* the reader get_status polls in a read state
Poll(w, ub) ==
  CASE w.esp.m_read_state = "until_sequence" -> command_and_find_response_done(w)
    [] w.esp.m_read_state = "into_buffer" -> read_into_buffer_done(w, ub)
    [] w.esp.m_read_state = "integer" -> read_integer_done(w)

\* esp8266::get_status: the world afterwards (it returns m_state)
get_status(w, ub, fmt) ==
  LET w1 == IF w.esp.m_state = "reset" THEN transition_state(w, ub, fmt) ELSE w
  IN IF w1.esp.m_read_state = "complete"
       THEN transition_state([w1 EXCEPT !.esp.m_state = w1.esp.m_next_state], ub, fmt)
       ELSE LET polled == Poll(w1, ub)
                w2 == [polled.w EXCEPT !.io.polled = w1.esp.m_read_state]
            IN IF polled.ret THEN [w2 EXCEPT !.esp.m_read_state = "complete"] ELSE w2


\* ----------------------------------------------------------- the caller

\* the access point change_access_point names
NewAccessPoint == [ssid |-> "net2", password |-> "pw2"]

\* a path of p_len bytes
PathOfLength(p_len) == [i \in 1..p_len |-> IF i = 1 THEN "/" ELSE "a"]

\* the requests the caller makes: one that fits the response buffer with its
\* terminating zero, and one that is formatted longer than the buffer
Requests ==
  {[domain |-> "example.com", path |-> PathOfLength(1), port |-> "80"],
   [domain |-> "other.org", path |-> PathOfLength(ResponseSize - 5), port |-> "8080"]}

\* ----------------------------------------------------------- the module

\* +IPD,<n>:<payload>
Ipd(payload) == ipd_preamble \o ToDigits(Len(payload)) \o <<":">> \o payload

Header(p_status, p_length) ==
  <<"HTTP/1.1 ", p_status, "Content-Length: ">> \o ToDigits(p_length) \o end_of_header

\* p_count body bytes of a packet, each naming the packet and its place in it
Body(p_packet, p_count) ==
  [i \in 1..p_count |-> IF p_packet = "first" THEN <<"f1", "f2", "f3", "f4">>[i]
                        ELSE <<"n1", "n2", "n3", "n4", "n5", "n6", "n7", "n8", "n9">>[i]]

\* the body bytes a packet of the largest size holds after the header
FullBody == maximum_response_packet_size - Len(Header("2", 1))

\* the first packets of a response: the whole response in a packet shorter
\* than the largest; the whole response in a packet of the largest size; a
\* short packet with a part of the body; a full packet with a part of the
\* body; a body longer than the response buffer; no Content-Length; a packet
\* announced one byte longer than the largest
FirstPackets ==
  {Header("2", 1) \o Body("first", 1),
   Header("2", FullBody) \o Body("first", FullBody),
   Header("2", 2) \o Body("first", 1),
   Header("2", FullBody + 2) \o Body("first", FullBody),
   Header("2", ResponseSize + 1) \o Body("first", 1),
   <<"HTTP/1.1 ", "2">> \o end_of_header \o Body("first", 1),
   Header("2", 1) \o Body("first", FullBody + 1)}

\* the packets that follow: one byte, or more than the buffer has room for
NextPackets == {Body("next", k) : k \in {1, ResponseSize - 1}}

Replies ==
  {ok_response, <<"ERROR", "\r", "\n">>}
  \cup {Ipd(p) : p \in FirstPackets \cup NextPackets}

\* ------------------------------------------------------------ the system

VARIABLES
  esp,     \* the esp8266 object
  serial,  \* the serial device: rx, the bytes received and not yet read;
           \* tx, the spans written since the caller's last call other
           \* than get_status, in order
  fault,   \* what became of an access outside an array
  calls,   \* how many calls other than get_status the caller has made
  feed,    \* the bytes the module sends of its own accord in this run:
           \*   stream, all of them in order; sent, how many of them have
           \*   reached the serial device
  hist     \* what an observer of the caller and of the serial line has seen:
           \*   call, found: the caller's last call other than get_status,
           \*     and how it found the driver (see Found)
           \*   ticked: get_status has returned since that call
           \*   body: the bytes the fixed-length reader has taken for the body
           \*     since the last request, in the order of arrival
           \*   multi: a packet after the first was read since the last request

vars == <<esp, serial, fault, calls, feed, hist>>

\* the world as a call finds it
World == [esp |-> esp, serial |-> serial, fault |-> fault, io |-> NoIo]

\* the world as a call of request, change_access_point or initialize finds
\* it: serial.tx is the record of what was written since the last such call
Called == [World EXCEPT !.serial.tx = <<>>]

Running == fault # "trapped"

\* what an access outside an array comes to, and what the formatters report
Builds == {"trap", "carry_on"}
Formatters == {"ok", "request_error", "cipsend_error"}

\* how a call finds the driver: "fresh" as constructed (in Reset, no reader
\* active), "associated" in ConnectedToAp, Complete or Failure, "busy" in
\* every other phase and whenever a reader is active
Found ==
  IF esp.m_read_state # "complete" THEN "busy"
  ELSE IF esp.m_state = "reset" THEN "fresh"
  ELSE IF esp.m_state \in {"connected_to_ap", "complete", "failure"} THEN "associated"
  ELSE "busy"

\* the body bytes seen to arrive, after a get_status that left the world w
Arrived(w) ==
  IF w.io.polled = "into_buffer" /\ esp.m_state = "read_packet_into_response"
    THEN hist.body \o w.io.bytes
  ELSE IF w.esp.m_state = "parsing_header" /\ esp.m_state # "parsing_header"
    THEN SubSeq(w.esp.m_packet, w.esp.m_header.header_length + 1,
                Min(get(w), Len(w.esp.m_packet)))
  ELSE hist.body

\* the world a call leaves; a trap ends the program where it stood
Becomes(w, h) ==
  IF w.fault = "trapped"
    THEN /\ fault' = "trapped"
         /\ UNCHANGED <<esp, serial, hist>>
    ELSE /\ esp' = w.esp
         /\ serial' = w.serial
         /\ fault' = w.fault
         /\ hist' = h

\* the module sends nothing of its own accord
NoFeed == [stream |-> <<>>, sent |-> 0]

\* the esp8266 object after its constructor
Constructed ==
  [m_response |-> [i \in 1..ResponseSize |-> "?"],
   m_ssid |-> "net",
   m_password |-> "pw",
   m_commander |-> [m_search_index |-> 0, m_sent_command |-> FALSE,
                    m_command |-> to_bytes(<<>>), m_sequence |-> <<>>],
   m_reader |-> [m_memory |-> [buf |-> "none", off |-> 0, len |-> 0],
                 m_read_index |-> 0],
   m_integer_reader |-> [m_finished |-> TRUE, m_found_digit |-> FALSE,
                         m_integer |-> Zero32],
   m_packet |-> [i \in 1..maximum_response_packet_size |-> "\\0"],
   m_request |-> [domain |-> "", path |-> <<"/">>, port |-> "80"],
   m_header |-> failure_header,
   m_state |-> "reset",
   m_next_state |-> "reset",
   m_read_state |-> "complete",
   m_request_length |-> 0,
   m_response_position |-> 0]

Init ==
  /\ esp = Constructed
  /\ serial = [rx |-> <<>>, tx |-> <<>>]
  /\ fault = "none"
  /\ calls = 0
  /\ feed = NoFeed
  /\ hist = [call |-> "none", found |-> "fresh", ticked |-> FALSE,
             body |-> <<>>, multi |-> FALSE]

GetStatus ==
  /\ Running
  /\ \E w \in {get_status(World, ub, fmt) : ub \in Builds, fmt \in Formatters} :
       Becomes(w, [hist EXCEPT !.ticked = TRUE,
                               !.body = Arrived(w),
                               !.multi = @ \/ (w.io.polled = "into_buffer"
                                               /\ esp.m_state = "read_packet_into_response")])
  /\ UNCHANGED <<calls, feed>>

\* the caller's other calls, as the observer notes them
Noted(p_call) ==
  [hist EXCEPT !.call = p_call, !.found = Found, !.ticked = FALSE,
               !.body = IF p_call = "request" THEN <<>> ELSE @,
               !.multi = IF p_call = "request" THEN FALSE ELSE @]

\* request() as one of at most p_max calls
RequestWithin(p_max) ==
  /\ Running
  /\ calls < p_max
  /\ \E w \in {request(Called, r, ub, fmt) :
                  r \in Requests, ub \in Builds, fmt \in Formatters} :
       Becomes(w, Noted("request"))
  /\ calls' = calls + 1
  /\ UNCHANGED feed

Request == RequestWithin(MaxCalls)

\* change_access_point() as one of at most p_max calls
ChangeAccessPointWithin(p_max) ==
  /\ Running
  /\ calls < p_max
  /\ LET w == change_access_point(Called, NewAccessPoint.ssid, NewAccessPoint.password)
     IN Becomes(w, Noted("change_access_point"))
  /\ calls' = calls + 1
  /\ UNCHANGED feed

ChangeAccessPoint == ChangeAccessPointWithin(MaxCalls)

Initialize ==
  /\ Running
  /\ calls < MaxCalls
  /\ LET w == driver_initialize(Called)
     IN Becomes(w, Noted("initialize"))
  /\ calls' = calls + 1
  /\ UNCHANGED feed

\* the module sends a reply once the line is idle
\* the module sends one of p_replies when the device holds nothing unread
ModuleRepliesFrom(p_replies) ==
  /\ Running
  /\ serial.rx = <<>>
  /\ \E reply \in p_replies : serial' = [serial EXCEPT !.rx = reply]
  /\ UNCHANGED <<esp, fault, calls, feed, hist>>

ModuleReplies == ModuleRepliesFrom(Replies)

Next == GetStatus \/ Request \/ ChangeAccessPoint \/ Initialize \/ ModuleReplies

Spec == Init /\ [][Next]_vars


\* --------------------------------------------------------- the properties

\* the spans written since the caller's last call, one after the other
RECURSIVE Flat(_)
Flat(chunks) == IF chunks = <<>> THEN <<>> ELSE Head(chunks) \o Flat(Tail(chunks))

\* text occurs in s as a run of neighbouring bytes
Occurs(text, s) == find(s, text) # npos

\* the current transaction was started by request() on an associated driver
\* and the caller has made no call but get_status since
Transaction == hist.call = "request" /\ hist.found = "associated"

InPipeline(p_state) == StateOrd(p_state) >= StateOrd("connecting_to_server")

CipStart(r) == <<"AT+CIPSTART=\"TCP\",\"", r.domain, "\",", r.port, "\r\n">>

CwJap(p_ssid, p_password) ==
  <<"AT+CWJAP_CUR=\"", p_ssid, "\",\"", p_password, "\"\r\n">>

\* one of the two sequences starts the other
Agree(s, t) ==
  LET n == Min(Len(s), Len(t)) IN SubSeq(s, 1, n) = SubSeq(t, 1, n)

\* C1: in whatever phase request(r) is called, the phases get_status reports
\* afterwards are those of the request pipeline, from ConnectingToServer on,
\* and what is written after the call starts with AT+CIPSTART for r's domain
\* and port: no command of the phase that was in flight is emitted again.
C1_RequestEntersConnectingToServer ==
  hist.call = "request" =>
    /\ hist.ticked => InPipeline(esp.m_state)
    /\ Agree(Flat(serial.tx), CipStart(esp.m_request))

\* C2: after change_access_point on an associated driver, get_status does not
\* report ConnectedToAp again before AT+CWJAP_CUR with the new ssid and
\* password has been written.
C2_ChangeAccessPointReassociates ==
  (/\ hist.call = "change_access_point"
   /\ hist.found = "associated"
   /\ hist.ticked
   /\ esp.m_state = "connected_to_ap")
    => Occurs(CwJap(NewAccessPoint.ssid, NewAccessPoint.password), Flat(serial.tx))

\* the header get_status has just parsed is valid and its body fits
HeaderAccepted ==
  /\ esp.m_state = "parsing_header"
  /\ hist.ticked
  /\ is_valid(esp.m_header)
  /\ esp.m_header.content_length <= ResponseSize

\* C3: after a valid header whose body fits the response buffer, the next
\* phase is CloseConnection exactly when content_length + header_length is at
\* most the announced length of the first packet, and GetPacketLength otherwise.
C3_WholeResponseInFirstPacket ==
  HeaderAccepted =>
    IF esp.m_header.content_length + esp.m_header.header_length <= get(World)
      THEN esp.m_next_state = "close_connection"
      ELSE esp.m_next_state = "get_packet_length"

\* C4: when get_status reports Complete, response() is content_length bytes
\* long.
C4_ResponseIsTheBody ==
  (esp.m_state = "complete" /\ hist.ticked)
    => Len(response(World)) = esp.m_header.content_length

\* C6: for a request that is formatted longer than the response buffer,
\* PreparingRequest selects CloseConnectionFailure, AT+CIPSEND is not written
\* and no span longer than the response buffer is written.
C6_FormattingOverflowFails ==
  (Transaction /\ Len(FormattedRequest(esp.m_request)) > ResponseSize) =>
    /\ \A i \in 1..Len(serial.tx) :
         /\ Len(serial.tx[i]) <= ResponseSize
         /\ serial.tx[i] # <<>> => serial.tx[i][1] # "AT+CIPSEND="
    /\ (esp.m_state = "preparing_request" /\ hist.ticked)
         => esp.m_next_state = "close_connection_failure"

\* the step writes the formatted request
WritesRequest ==
  /\ Len(serial'.tx) = Len(serial.tx) + 1
  /\ serial'.tx[Len(serial'.tx)] # <<>>
  /\ serial'.tx[Len(serial'.tx)][1] = "GET "

\* C10: the request bytes are written in SendingRequest only, the phase
\* entered once OK\r\n was matched after AT+CIPSEND, and GetFirstPacketLength
\* is entered from SendingRequest.
C10_RequestSentAfterCipsendOk ==
  [][/\ WritesRequest => esp.m_state = "sending_request"
     /\ (esp'.m_state = "get_first_packet_length" /\ esp.m_state # esp'.m_state)
          => esp.m_state = "sending_request"]_vars


\* the bytes a step takes from the serial device
Taken == SubSeq(serial.rx, 1, Len(serial.rx) - Len(serial'.rx))

\* the fixed-length reader is filling the response buffer
ReadingPacket ==
  esp.m_state = "read_packet_into_response" /\ esp.m_read_state = "into_buffer"

\* a get_status that polls the fixed-length reader over the response buffer
StoresPacket == ReadingPacket /\ calls' = calls /\ esp' # esp /\ fault' = "none"

\* get_status enters GetNextPacket
EntersGetNextPacket ==
  esp.m_state = "read_packet_into_response" /\ esp'.m_state = "get_next_packet"

\* Complete after a transfer of more than one packet, no array overrun
MultiPacketComplete ==
  Transaction /\ esp.m_state = "complete" /\ hist.multi /\ fault = "none"

\* C5: in ReadPacketIntoResponse the reader's memory is the response buffer
\* from the write cursor on, as long as the packet's announced length, and
\* the bytes it takes from the serial device are stored from the cursor on
\* in their order; entering GetNextPacket advances the cursor by the
\* announced length and selects CloseConnection iff the cursor has reached
\* content_length, else GetPacketLength; at Complete after a multi-packet
\* transfer the first content_length bytes of the response buffer are the
\* body bytes in the order they arrived.
C5_PacketsAppendAtCursor ==
  /\ [](ReadingPacket =>
          esp.m_reader.m_memory = [buf |-> "response",
                                   off |-> esp.m_response_position,
                                   len |-> get(World)])
  /\ [][StoresPacket =>
          /\ esp'.m_response =
               StoreAt(esp.m_response,
                       esp.m_response_position + esp.m_reader.m_read_index, Taken)
          /\ esp'.m_reader.m_read_index = esp.m_reader.m_read_index + Len(Taken)
          /\ esp'.m_response_position = esp.m_response_position]_vars
  /\ [][EntersGetNextPacket =>
          /\ esp'.m_response_position = esp.m_response_position + get(World)
          /\ esp'.m_next_state =
               IF esp'.m_response_position >= esp.m_header.content_length
                 THEN "close_connection" ELSE "get_packet_length"]_vars
  /\ [](MultiPacketComplete =>
          /\ Len(hist.body) >= esp.m_header.content_length
          /\ SubSeq(esp.m_response, 1, esp.m_header.content_length)
               = SubSeq(hist.body, 1, esp.m_header.content_length))

\* a body of several packets has been put together and Complete is reported
C5_Witness ==
  /\ MultiPacketComplete
  /\ hist.ticked
  /\ esp.m_response_position = esp.m_header.content_length
  /\ Len(hist.body) > 2

\* the header in a first packet is invalid or announces a body longer than
\* the response buffer
BadHeaderIn(p_packet) ==
  LET h == response_header_from_string(p_packet)
  IN ~is_valid(h) \/ h.content_length > ResponseSize

BadHeader == BadHeaderIn(esp.m_packet)

CipClose == <<"AT+CIPCLOSE\r\n">>

\* the command scanner has matched OK\r\n after writing AT+CIPCLOSE
CipCloseAcknowledged ==
  /\ esp.m_commander.m_command = to_bytes(CipClose)
  /\ esp.m_commander.m_sent_command
  /\ esp.m_commander.m_sequence = ok_response
  /\ esp.m_commander.m_search_index = Len(ok_response)

\* the caller's last call was request and this step is a get_status
Ticks == hist.call = "request" /\ calls' = calls /\ esp' # esp

\* C7: in ParsingHeader with a header that is invalid or announces a body
\* longer than the response buffer the next phase is CloseConnectionFailure
\* and the response buffer is as it was; from there get_status reports
\* CloseConnectionFailure and then Failure only, never Complete; Failure is
\* entered from CloseConnectionFailure once its read is complete, with
\* AT+CIPCLOSE the last span written and OK\r\n matched after it.
C7_BadHeaderFails ==
  /\ []((esp.m_state = "parsing_header" /\ hist.call # "change_access_point"
         /\ BadHeader)
          => esp.m_next_state = "close_connection_failure")
  /\ [][(esp'.m_state = "parsing_header" /\ esp'.m_response # esp.m_response)
          => ~BadHeaderIn(esp'.m_packet)]_vars
  /\ [][(Ticks /\ esp.m_state = "parsing_header" /\ BadHeader)
          => esp'.m_state = "close_connection_failure"]_vars
  /\ [][(Ticks /\ esp.m_state = "close_connection_failure")
          => esp'.m_state \in {"close_connection_failure", "failure"}]_vars
  /\ [][(esp'.m_state = "failure" /\ esp.m_state # "failure")
          => /\ esp.m_state = "close_connection_failure"
             /\ esp.m_read_state = "complete"]_vars
  /\ [](esp.m_state = "failure" => CipCloseAcknowledged)
  /\ []((esp.m_state = "failure" /\ hist.call = "request" /\ hist.ticked)
          => (serial.tx # <<>> /\ serial.tx[Len(serial.tx)] = CipClose))

\* Failure is reported for a transaction whose first packet had a bad header
C7_Witness ==
  /\ Transaction
  /\ hist.ticked
  /\ esp.m_state = "failure"
  /\ BadHeader
  /\ CipCloseAcknowledged

\* C8: when get_status has reported Complete or Failure and the caller has
\* made no other call since, a further get_status leaves the driver and the
\* serial device as they are: the same phase, the same response buffer, no
\* reader polled, nothing read and nothing written.
C8_TerminalPhasesAreIdle ==
  (esp.m_state \in {"complete", "failure"} /\ hist.ticked) =>
    \A ub \in Builds, fmt \in Formatters : get_status(World, ub, fmt) = World

\* Complete or Failure was reported and bytes wait on the serial device
C8_Witness ==
  /\ esp.m_state \in {"complete", "failure"}
  /\ hist.ticked
  /\ esp.m_read_state = "complete"
  /\ esp.m_next_state = esp.m_state
  /\ serial.rx # <<>>


\* ------------------------------------------------ association with OK replies

\* the module answers a command with OK\r\n once the command has been written
ModuleAnswersOk ==
  /\ Running
  /\ esp.m_read_state = "until_sequence"
  /\ esp.m_commander.m_sent_command
  /\ serial.rx = <<>>
  /\ serial' = [serial EXCEPT !.rx = ok_response]
  /\ UNCHANGED <<esp, fault, calls, feed, hist>>

NextAssociation == GetStatus \/ Initialize \/ Request \/ ModuleAnswersOk

\* the caller keeps calling get_status and the module keeps answering
SpecAssociation ==
  /\ Init
  /\ [][NextAssociation]_vars
  /\ WF_vars(GetStatus)
  /\ SF_vars(ModuleAnswersOk)

\* the driver was constructed or initialized with no reader active and
\* neither request nor change_access_point has been called since
BootScope == hist.call \in {"none", "initialize"} /\ hist.found # "busy"

\* the spans the association writes, in order
BootSpans ==
  <<<<"ATE0\r\n">>, <<"AT+CWMODE=1\r\n">>,
    <<"AT+CWJAP_CUR=\"">>, <<esp.m_ssid>>, <<"\",\"">>, <<esp.m_password>>,
    <<"\"\r\n">>>>

\* how many of them have been written when get_status reports a phase
SpansWritten(p_state) ==
  CASE p_state = "reset" -> {0}
    [] p_state = "disable_echo" -> {0, 1}
    [] p_state = "configure_as_http_client" -> {1, 2}
    [] p_state = "attempting_ap_connection" -> {6, 7}
    [] p_state = "connected_to_ap" -> {7}
    [] OTHER -> {}

BootPhases ==
  {"reset", "disable_echo", "configure_as_http_client",
   "attempting_ap_connection", "connected_to_ap"}

MaxPrefix == 2

\* the sequences of at most p_len bytes of the set p_bytes
RECURSIVE SeqsUpTo(_, _)
SeqsUpTo(p_bytes, p_len) ==
  IF p_len = 0 THEN {<<>>}
  ELSE LET shorter == SeqsUpTo(p_bytes, p_len - 1)
       IN shorter \cup {Append(q, b) : q \in shorter, b \in p_bytes}

Range(q) == {q[i] : i \in 1..Len(q)}

\* the terminators the driver scans for, and none
Terminators == {ok_response, ipd_preamble, <<>>}

ScanCommands == {<<>>, <<"AT\r\n">>}

\* the streams the module sends to a reader that scans for p_sequence: the
\* sequence after a few bytes, its own among them, and maybe a byte after it
ScanStreams(p_sequence) ==
  {q \o p_sequence \o r :
     q \in SeqsUpTo(Range(p_sequence) \cup {"x"}, MaxPrefix), r \in {<<>>, <<"x">>}}

\* a serial device that has received and sent nothing, and an observer
Idle == [rx |-> <<>>, tx |-> <<>>]
Unobserved ==
  [call |-> "none", found |-> "fresh", ticked |-> FALSE, body |-> <<>>,
   multi |-> FALSE]

\* new_search(command, sequence) on the reader of a constructed driver
InitScan ==
  /\ \E t \in Terminators, c \in ScanCommands :
       /\ esp = new_search([esp |-> Constructed], to_bytes(c), t).esp
       /\ \E q \in ScanStreams(t) : feed = [stream |-> q, sent |-> 0]
  /\ serial = Idle
  /\ fault = "none"
  /\ calls = 0
  /\ hist = Unobserved

\* some more of the module's bytes reach the serial device
ModuleSends ==
  /\ Running
  /\ feed.sent < Len(feed.stream)
  /\ \E k \in 1..(Len(feed.stream) - feed.sent) :
       /\ serial' = [serial EXCEPT
                       !.rx = @ \o SubSeq(feed.stream, feed.sent + 1, feed.sent + k)]
       /\ feed' = [feed EXCEPT !.sent = @ + k]
  /\ UNCHANGED <<esp, fault, calls, hist>>

\* one tick: command_and_find_response::done is called
ScanTick ==
  /\ Running
  /\ Becomes(command_and_find_response_done(World).w, [hist EXCEPT !.ticked = TRUE])
  /\ UNCHANGED <<calls, feed>>

NextScan == ScanTick \/ ModuleSends

SpecScan == InitScan /\ [][NextScan]_vars

\* the bytes read from the serial device so far, where nothing is flushed
Consumed == SubSeq(feed.stream, 1, feed.sent - Len(serial.rx))

\* the reader has consumed the whole of its terminator
Matched == esp.m_commander.m_search_index = Len(esp.m_commander.m_sequence)

\* C11: for the terminators OK\r\n and +IPD, the reader has matched exactly
\* when the bytes it has consumed contain the terminator, and then it has
\* consumed the stream up to the end of the terminator's first occurrence.
C11_ScanFindsFirstOccurrence ==
  esp.m_commander.m_sequence # <<>> =>
    /\ Matched <=> Occurs(esp.m_commander.m_sequence, Consumed)
    /\ Matched => find(Consumed, esp.m_commander.m_sequence)
                    + Len(esp.m_commander.m_sequence) = Len(Consumed)


\* ------------------------------------- the driver on a stream of replies

\* the replies to a whole session, as the module sends them one after the
\* other: OK\r\n to ATE0, AT+CWMODE, AT+CWJAP_CUR and AT+CIPSTART, the
\* response in one packet or in three, OK\r\n to AT+CIPCLOSE
SessionStreams ==
  LET oks == ok_response \o ok_response \o ok_response \o ok_response
  IN {oks \o Ipd(Header("2", 1) \o Body("first", 1)) \o ok_response,
      oks \o Ipd(Header("2", FullBody + 2) \o Body("first", FullBody))
          \o Ipd(Body("next", 1)) \o Ipd(Body("next", 1)) \o ok_response}

InitStream ==
  /\ esp = Constructed
  /\ \E q \in SessionStreams : feed = [stream |-> q, sent |-> 0]
  /\ serial = Idle
  /\ fault = "none"
  /\ calls = 0
  /\ hist = Unobserved

NextStream == GetStatus \/ Request \/ ModuleSends

SpecStream == InitStream /\ [][NextStream]_vars

\* this step is a call of get_status that went without undefined behaviour
Tick == calls' = calls /\ feed' = feed /\ fault' = "none"

\* what is left on the serial device is what was there, less the bytes taken
TakenFromFront ==
  /\ Len(serial'.rx) <= Len(serial.rx)
  /\ serial'.rx = SubSeq(serial.rx, Len(serial.rx) - Len(serial'.rx) + 1, Len(serial.rx))

\* the scanner has taken no byte, or one, and moved its cursor by it
ScannerTook ==
  LET c == esp.m_commander
  IN /\ Len(Taken) <= 1
     /\ Len(Taken) = 1 =>
          esp'.m_commander.m_search_index =
            IF c.m_sequence[c.m_search_index + 1] = Taken[1]
              THEN c.m_search_index + 1 ELSE 0
     /\ Len(Taken) = 0 => esp'.m_commander.m_search_index = c.m_search_index

\* the integer reader has taken no byte, or one
IntegerTook ==
  /\ Len(Taken) <= 1
  /\ Len(Taken) = 0 => esp'.m_integer_reader = esp.m_integer_reader
  /\ (Len(Taken) = 1 /\ ~isdigit(Taken[1])) =>
       esp'.m_integer_reader.m_integer = esp.m_integer_reader.m_integer

\* the fixed-length reader has stored what it took where its index stood
BufferTook ==
  LET r == esp.m_reader
      at == r.m_memory.off + r.m_read_index
  IN /\ esp'.m_reader.m_read_index = r.m_read_index + Len(Taken)
     /\ r.m_memory.buf = "packet" => esp'.m_packet = StoreAt(esp.m_packet, at, Taken)
     /\ r.m_memory.buf = "response" => esp'.m_response = StoreAt(esp.m_response, at, Taken)

\* the bytes a call of get_status takes go to the reader of the sub-mode,
\* the other readers and buffers stay as they are, and the sub-mode becomes
\* Complete when that reader reports done
ReaderOfSubModeTakes ==
  /\ esp.m_read_state = "until_sequence" =>
       /\ TakenFromFront /\ ScannerTook
       /\ esp'.m_read_state = "complete" <=> Matched
       /\ UNCHANGED <<esp.m_reader, esp.m_integer_reader, esp.m_packet, esp.m_response>>
  /\ esp.m_read_state = "integer" =>
       /\ TakenFromFront /\ IntegerTook
       /\ esp'.m_read_state = "complete" <=> esp'.m_integer_reader.m_finished
       /\ UNCHANGED <<esp.m_commander, esp.m_reader, esp.m_packet, esp.m_response>>
  /\ esp.m_read_state = "into_buffer" =>
       /\ TakenFromFront /\ BufferTook
       /\ esp'.m_read_state = "complete"
            <=> esp.m_reader.m_read_index = esp.m_reader.m_memory.len
       /\ UNCHANGED <<esp.m_commander, esp.m_integer_reader>>
  /\ esp.m_read_state # "complete" =>
       UNCHANGED <<esp.m_state, esp.m_next_state, serial.tx>>
          \/ (esp.m_read_state = "until_sequence" /\ ~esp.m_commander.m_sent_command)

\* the phases whose commands esp8266::write sends
WritingPhases == {"attempting_ap_connection", "connecting_to_server", "preparing_request"}

\* C12 as stated: every byte received is taken by the reader of the
\* sub-mode, once and in order, and in the sub-mode Complete a call of
\* get_status takes or drops no byte.
C12_NoByteDropped ==
  [][Tick => /\ ReaderOfSubModeTakes
             /\ esp.m_read_state = "complete" => serial'.rx = serial.rx]_vars

\* C12: every byte a call of get_status takes is taken from the front of the
\* received bytes by the reader of the sub-mode, once and in order; in the
\* sub-mode Complete the call reads no byte and makes a phase transition,
\* and the received bytes stay as they are unless the phase entered sends
\* its command through esp8266::write, which first flushes them all away.
C12_BytesTakenInOrderOrFlushed ==
  [][Tick => /\ ReaderOfSubModeTakes
             /\ esp.m_read_state = "complete" =>
                  \/ serial'.rx = serial.rx
                  \/ /\ serial'.rx = <<>>
                     /\ esp'.m_state \in WritingPhases
                     /\ Len(serial'.tx) > Len(serial.tx)]_vars

\* OK\r\n to AT+CWJAP_CUR had arrived before the command was written: it
\* was flushed, and the scanner waits with every byte of the stream gone
C12_Witness ==
  /\ esp.m_state = "attempting_ap_connection"
  /\ esp.m_commander.m_sent_command
  /\ esp.m_commander.m_search_index = 0
  /\ feed.sent = Len(feed.stream)
  /\ serial.rx = <<>>
  /\ hist.call = "none"

\* ------------------------------------------- the integer reader on a field

\* what may stand before a length field: nothing a digit
Prefixes == {<<>>, <<",">>, <<"\r", "\n", "+", "I", "P", "D", ",">>}

\* decimal fields of one to ten digits
DigitStrings ==
  {<<"0">>, <<"7">>, <<"0", "7">>, <<"1", "4", "6", "0">>,
   <<"6", "5", "5", "3", "6">>,
   <<"4", "2", "9", "4", "9", "6", "7", "2", "9", "5">>,
   <<"4", "2", "9", "4", "9", "6", "7", "2", "9", "6">>,
   <<"9", "9", "9", "9", "9", "9", "9", "9", "9", "9">>}

\* the byte that ends the field, and what the module sends after it
FieldEnds == {":", "\r"}
AfterField == {<<>>, <<"5">>}

InitInteger ==
  /\ esp = restart([esp |-> Constructed]).esp
  /\ \E p \in Prefixes, d \in DigitStrings, t \in FieldEnds, r \in AfterField :
       feed = [stream |-> p \o d \o <<t>> \o r, sent |-> 0,
               prefix |-> p, digits |-> d]
  /\ serial = Idle
  /\ fault = "none"
  /\ calls = 0
  /\ hist = Unobserved

\* one call of read_integer::done
IntegerTick ==
  /\ Running
  /\ Becomes(read_integer_done(World).w, [hist EXCEPT !.ticked = TRUE])
  /\ UNCHANGED <<calls, feed>>

NextInteger == IntegerTick \/ ModuleSends

SpecInteger == InitInteger /\ [][NextInteger]_vars

\* the number a digit string denotes, in halves whose upper one is unbounded
RECURSIVE Denotes(_)
Denotes(p_digits) ==
  IF p_digits = <<>> THEN Zero32
  ELSE LET v == Denotes(SubSeq(p_digits, 1, Len(p_digits) - 1))
           lo == v.lo * 10 + DigitValue(p_digits[Len(p_digits)])
       IN [hi |-> v.hi * 10 + lo \div Half, lo |-> lo % Half]

\* n modulo 2^32
Modulo32(n) == [hi |-> n.hi % Half, lo |-> n.lo]

\* the bytes of the field: prefix, digits and the byte that ends them
FieldLength == Len(feed.prefix) + Len(feed.digits) + 1

\* a call of done() takes at most one byte, finishes exactly when it has
\* taken the byte ending the field, and then holds p_value
FieldRead(p_value) ==
  feed' = feed =>
    /\ TakenFromFront
    /\ Len(Taken) <= 1
    /\ esp'.m_integer_reader.m_finished <=> Len(Consumed') = FieldLength
    /\ esp'.m_integer_reader.m_finished =>
         esp'.m_integer_reader.m_integer = p_value

\* C13 as stated: the integer reader, fed non-digit prefix bytes, then the
\* decimal digits of a number n of one to ten digits, then a non-digit,
\* yields n itself, having consumed the prefix, the digits and that one
\* terminating byte, one byte per call.
C13_IntegerReaderYieldsN == [][FieldRead(Denotes(feed.digits))]_vars

\* C13: the same, with the value the reader holds being n modulo 2^32: n
\* itself for every n up to 4294967295, and n - k * 2^32 for the ten-digit
\* numbers above it.
C13_IntegerReaderYieldsNModulo32 ==
  [][FieldRead(Modulo32(Denotes(feed.digits)))]_vars

\* the reader has finished on the largest number a uint32_t holds
C13_Witness ==
  /\ esp.m_integer_reader.m_finished
  /\ hist.ticked
  /\ feed.digits = <<"4", "2", "9", "4", "9", "6", "7", "2", "9", "5">>
  /\ esp.m_integer_reader.m_integer = [hi |-> Half - 1, lo |-> Half - 1]
  /\ Len(Consumed) = FieldLength

\* ------------------------------------------------- the scratch packet buffer

\* the fixed-length reader has been handed the scratch packet buffer
FillingPacket == esp.m_reader.m_memory.buf = "packet"

\* C14: whatever length the first +IPD preamble announces, the destination
\* handed to the fixed-length reader in ReadingFirstPacket lies within the
\* scratch packet buffer, and no more bytes than the buffer holds are written
\* to it.
C14_FirstPacketWithinScratch ==
  FillingPacket =>
    /\ esp.m_reader.m_memory.off + esp.m_reader.m_memory.len
         <= maximum_response_packet_size
    /\ esp.m_reader.m_read_index <= maximum_response_packet_size

\* ------------------------------------------- the fixed-length reader alone

\* the longest destination handed to the reader
MaxFill == 3

\* destinations of every size up to MaxFill, within the two buffers
Destinations ==
  {[buf |-> "packet", off |-> 0, len |-> k] : k \in 0..MaxFill}
  \cup {[buf |-> "response", off |-> o, len |-> k] : o \in {0, 2}, k \in 0..MaxFill}

\* streams that deliver at least p_size bytes
FillStreams(p_size) == {Body("next", n) : n \in p_size..(p_size + 2)}

InitBuffer ==
  /\ \E d \in Destinations :
       /\ esp = new_buffer([esp |-> Constructed], d).esp
       /\ \E q \in FillStreams(d.len) : feed = [stream |-> q, sent |-> 0]
  /\ serial = Idle
  /\ fault = "none"
  /\ calls = 0
  /\ hist = [ticked |-> FALSE, done |-> FALSE]

\* one call of read_into_buffer::done, and what it returned
BufferTick ==
  /\ Running
  /\ \E ub \in Builds :
       LET r == read_into_buffer_done(World, ub)
       IN Becomes(r.w, [ticked |-> TRUE, done |-> r.ret])
  /\ UNCHANGED <<calls, feed>>

NextBuffer == BufferTick \/ ModuleSends

\* the caller keeps calling done(), and the module sends its whole stream
SpecBuffer ==
  InitBuffer /\ [][NextBuffer]_vars /\ WF_vars(BufferTick) /\ WF_vars(ModuleSends)

\* what the destination holds
Destination ==
  LET mem == esp.m_reader.m_memory
  IN SubSeq(IF mem.buf = "packet" THEN esp.m_packet ELSE esp.m_response,
            mem.off + 1, mem.off + mem.len)

\* C15: for every destination of size k and every stream of at least k bytes,
\* however the stream is split across ticks, the fixed-length reader
\* eventually reports done, and whenever it reports done its destination
\* holds the first k bytes of the stream in order and exactly k bytes have
\* been consumed, the rest being left on the device or still to come.
C15_BufferFilledWithFirstBytes ==
  /\ <>hist.done
  /\ [](hist.done =>
          /\ Destination = SubSeq(feed.stream, 1, esp.m_reader.m_memory.len)
          /\ Len(Consumed) = esp.m_reader.m_memory.len
          /\ fault = "none")

\* done on a destination of the longest size inside the response buffer,
\* with the byte after it left on the device for the next reader
C15_Witness ==
  /\ hist.done
  /\ esp.m_reader.m_memory = [buf |-> "response", off |-> 2, len |-> MaxFill]
  /\ Destination = Body("next", MaxFill)
  /\ serial.rx = <<Body("next", MaxFill + 1)[MaxFill + 1]>>

\* ------------------------------------------- the scanner and its command

\* C16: after new_search(command, terminator) the command is written to the
\* serial device exactly once, by the first call of done() (no byte having
\* been read before it); each call reads at most one byte; and once the
\* cursor equals the size of the terminator a call neither reads nor
\* writes, an empty terminator included.
C16_CommandWrittenOnceOnFirstTick ==
  [][feed' = feed =>
       /\ TakenFromFront
       /\ Len(Taken) <= 1
       /\ hist'.ticked =>
            Flat(serial'.tx) = SpanBytes(World, esp.m_commander.m_command)
       /\ Matched => (esp' = esp /\ serial' = serial)]_vars

\* ------------------------------------------------------ interleaved calls

\* how many calls of request() and change_access_point() are interleaved
\* with the calls of get_status()
MaxInterleaved == 2

\* OK, a whole response, the first packet of a longer one and its next
\* packet, a body longer than the response buffer, a first packet that ends
\* after the status and so has no Content-Length
InterleavedReplies ==
  {ok_response}
  \cup {Ipd(p) : p \in {Header("2", 1) \o Body("first", 1),
                        Header("2", FullBody + 1) \o Body("first", FullBody),
                        Body("next", 1),
                        Header("2", ResponseSize + 1) \o Body("first", 1),
                        <<"HTTP/1.1 ", "2">>}}

RequestInterleaved == RequestWithin(MaxInterleaved)

ChangeAccessPointInterleaved == ChangeAccessPointWithin(MaxInterleaved)

ModuleRepliesInterleaved == ModuleRepliesFrom(InterleavedReplies)

NextInterleaved ==
  \/ GetStatus
  \/ RequestInterleaved
  \/ ChangeAccessPointInterleaved
  \/ ModuleRepliesInterleaved

SpecInterleaved == Init /\ [][NextInterleaved]_vars

\* a step into the phase p_phase
Enters(p_phase) == esp'.m_state = p_phase /\ esp.m_state # p_phase

\* C17: however calls of get_status, request and change_access_point are
\* interleaved, in Complete the header held is valid and its content_length
\* is at most the size of the response buffer; Complete is entered only from
\* CloseConnection and Failure only from CloseConnectionFailure.
C17_CompleteOnlyAfterValidHeader ==
  /\ [](esp.m_state = "complete" =>
          /\ is_valid(esp.m_header)
          /\ esp.m_header.content_length <= ResponseSize)
  /\ [][/\ Enters("complete") => esp.m_state = "close_connection"
        /\ Enters("failure") => esp.m_state = "close_connection_failure"]_vars

\* Complete reached after two calls, the last of them a request() made
\* while the driver was busy
C17_Witness ==
  /\ esp.m_state = "complete"
  /\ calls = MaxInterleaved
  /\ hist.call = "request"
  /\ hist.found = "busy"
  /\ is_valid(esp.m_header)

\* -------------------------------------------------- replies that are not OK

\* the phases that send a command and scan for OK
ScanningPhases ==
  {"disable_echo", "configure_as_http_client", "attempting_ap_connection",
   "connecting_to_server", "close_connection", "close_connection_failure"}

\* a step of get_status: no other call, and nothing arriving on the device
Polled == calls' = calls /\ Len(serial'.rx) <= Len(serial.rx)

\* C18: a reply that is not OK is not detected. A scanning phase is entered
\* with the cursor at 0 on the terminator OK\r\n; while it scans, get_status
\* leaves the phase as it is and moves the cursor only by the byte it takes,
\* forward when the byte is the one expected and back to 0 otherwise; and
\* the phase is left only once the whole terminator has been matched, for
\* the phase the case named next, never for Failure on account of the reply.
C18_PhaseLeftOnlyAfterOk ==
  [][Polled =>
       /\ (esp'.m_state \in ScanningPhases /\ esp'.m_state # esp.m_state) =>
            /\ esp'.m_commander.m_search_index = 0
            /\ esp'.m_commander.m_sequence = ok_response
            /\ esp'.m_read_state = "until_sequence"
       /\ esp.m_state \in ScanningPhases =>
            /\ esp.m_commander.m_sequence = ok_response
            /\ esp.m_read_state \in {"until_sequence", "complete"}
            /\ esp.m_read_state = "until_sequence" =>
                 /\ esp'.m_state = esp.m_state
                 /\ TakenFromFront
                 /\ ScannerTook
                 /\ esp'.m_read_state = "complete" <=> Matched
            /\ esp.m_read_state = "complete" => Matched
            /\ esp'.m_state # esp.m_state =>
                 /\ esp.m_read_state = "complete"
                 /\ esp'.m_state = esp.m_next_state]_vars

\* ERROR has been taken from the device after AT+CIPSTART was sent, and the
\* driver is in ConnectingToServer still, its cursor at 0
C18_Witness ==
  /\ esp.m_state = "connecting_to_server"
  /\ esp.m_read_state = "until_sequence"
  /\ esp.m_commander.m_sent_command
  /\ esp.m_commander.m_search_index = 0
  /\ serial.rx = <<"\r", "\n">>
  /\ hist.ticked

\* ------------------------------------------------- the header parser alone

\* the status codes, lengths, further header lines and bodies of the
\* packets given to the parser
StatusCodes == {0, 2, 200, 404}
ContentLengths == {0, 1, 5, 1460, 65536}
HeaderLines == {<<>>, <<"Server: esp", "\r", "\n">>}
Bodies ==
  {<<>>, <<"h">>, <<"h", "\r", "\n", "\r", "\n", "HTTP/1.1 ", "9", "Content-Length: ", "9">>}

\* the three tokens of a first packet, as written by the server or not
StatusLine(p_kind) ==
  IF p_kind = "no_status_line" THEN "HTTP/1.0 " ELSE "HTTP/1.1 "
LengthField(p_kind) ==
  IF p_kind = "no_content_length" THEN "content-length: " ELSE "Content-Length: "
Separator(p_kind) ==
  IF p_kind = "no_separator" THEN <<"\r", "\n">> ELSE end_of_header

\* the header of a first packet with status S and Content-Length L
PacketHeader(p_kind, S, L, p_lines) ==
  <<StatusLine(p_kind)>> \o ToDigits(S) \o <<" OK", "\r", "\n">> \o p_lines
    \o <<LengthField(p_kind)>> \o ToDigits(L) \o Separator(p_kind)

\* the packets: well formed, with any of the bodies; and lacking one of the
\* three tokens, with a body that has none of them either
Packets ==
  {[kind |-> "well_formed", status |-> S, length |-> L,
    header |-> PacketHeader("well_formed", S, L, f), body |-> B] :
      S \in StatusCodes, L \in ContentLengths, f \in HeaderLines, B \in Bodies}
  \cup
  {[kind |-> k, status |-> S, length |-> L,
    header |-> PacketHeader(k, S, L, f), body |-> B] :
      k \in {"no_status_line", "no_content_length", "no_separator"},
      S \in StatusCodes \ {0}, L \in ContentLengths \ {0}, f \in HeaderLines,
      B \in {<<>>, <<"h">>}}

InitParser ==
  /\ esp = Constructed
  /\ \E p \in Packets :
       feed = [stream |-> p.header \o p.body, sent |-> 0, kind |-> p.kind,
               status |-> p.status, length |-> p.length,
               body_at |-> Len(p.header)]
  /\ serial = Idle
  /\ fault = "none"
  /\ calls = 0
  /\ hist = Unobserved

\* the packet is handed to the parser and the header it returns is kept
ParseHeader ==
  /\ feed.sent = 0
  /\ esp' = [esp EXCEPT !.m_header = response_header_from_string(feed.stream)]
  /\ feed' = [feed EXCEPT !.sent = Len(feed.stream)]
  /\ hist' = [hist EXCEPT !.ticked = TRUE]
  /\ UNCHANGED <<serial, fault, calls>>

NextParser == ParseHeader

SpecParser == InitParser /\ [][NextParser]_vars

\* C19: a well-formed first packet made of a status S, a Content-Length L
\* and a body parses to status_code S, content_length L and header_length
\* the offset of the first body byte, and the header is valid exactly when
\* neither S nor L is 0; a packet lacking the HTTP/1.1 status line, the
\* Content-Length token in that spelling, or the \r\n\r\n separator parses
\* to the zero header, which is not valid.
C19_HeaderRoundTrip ==
  hist.ticked =>
    IF feed.kind = "well_formed"
      THEN /\ esp.m_header = [status_code |-> feed.status,
                              content_length |-> feed.length,
                              header_length |-> feed.body_at]
           /\ is_valid(esp.m_header) <=> (feed.status # 0 /\ feed.length # 0)
      ELSE /\ esp.m_header = failure_header
           /\ ~is_valid(esp.m_header)

\* status 200 and Content-Length 5 parsed out of a packet whose body holds
\* the three tokens once more
C19_Witness ==
  /\ hist.ticked
  /\ feed.kind = "well_formed"
  /\ esp.m_header.status_code = 200
  /\ esp.m_header.content_length = 5
  /\ is_valid(esp.m_header)
  /\ Occurs(end_of_header, SubSeq(feed.stream, feed.body_at + 1, Len(feed.stream)))

\* ------------------------------------------------------ the response buffer

\* the fixed-length reader has been handed a part of the response buffer
FillingResponse == esp.m_reader.m_memory.buf = "response"

\* C20: every write into the caller's response buffer stays inside it: the
\* destination of each ReadPacketIntoResponse ends at or before the end of
\* the buffer, and the cursor, which counts the body bytes copied out of the
\* first packet and read after it, never passes the size of the buffer,
\* whatever lengths the module announces.
C20_ResponseWritesInside ==
  /\ FillingResponse =>
       esp.m_reader.m_memory.off + esp.m_reader.m_memory.len <= ResponseSize
  /\ esp.m_response_position <= ResponseSize

\* ------------------------------------------- what earlier packets leave

\* get_status has just entered ParsingHeader and parsed the packet buffer
HeaderParsed == esp.m_state = "parsing_header" /\ hist.ticked

\* the packet buffer of a driver that has received no packet but the
\* current one: its first p_length bytes, and zeros after them
PacketAlone(p_length) ==
  [i \in 1..maximum_response_packet_size |->
     IF i <= p_length THEN esp.m_packet[i] ELSE "\\0"]

\* the run that differs only in holding nothing of earlier packets
RunAlone == [World EXCEPT !.esp.m_packet = PacketAlone(get(World))]

\* C21: the header parsed in ParsingHeader and the phase taken next are
\* those of a run that received the same first packet and whose packet
\* buffer held nothing of earlier transactions beyond the packet's length.
C21_HeaderOfCurrentPacketOnly ==
  HeaderParsed =>
    /\ esp.m_header = response_header_from_string(RunAlone.esp.m_packet)
    /\ esp.m_next_state = parsing_header(RunAlone, "carry_on").esp.m_next_state

=============================================================================
